---- MODULE Spec2Model ----
(***************************************************************************)
(* TLV optional parameters of go-smpp: smpp/pdu/pdufield/tlv.go.           *)
(*                                                                         *)
(* State: one TLVMap (m), the bytes.Buffer the caller decodes from (r),    *)
(* the position of the running call (pc), the value the most recent call   *)
(* returned (err), the Write calls the most recent call issued on its sink *)
(* (w), and a record of the most recent call and its arguments (h).        *)
(***************************************************************************)
EXTENDS Integers, Sequences, FiniteSets, TLC

VARIABLES m, r, pc, err, w, h

vars == <<m, r, pc, err, w, h>>

(***************************************************************************)
(* Widths and constants of the source.                                     *)
(***************************************************************************)
\* uint16: the width of TLVTag and of TLVBody.Len.
Uint16Mod == 65536
\* uint8: the width of one byte.
ByteMod == 256
\* The size of a record header on the wire: tag (2 bytes) and length (2 bytes).
HeaderLen == 4
\* Two of the named tags.
MsMsgWaitFacilities == 48
SourcePort == 522

(***************************************************************************)
(* Bounds of the model.                                                    *)
(***************************************************************************)
\* The largest number of well-formed records in a buffer handed to Decode.
MaxRecords == 2

(***************************************************************************)
(* encoding/binary.BigEndian, as tlv.go uses it.                           *)
(***************************************************************************)
\* PutUint16 with the low byte first.
PutUint16LE(v) == <<v % ByteMod, (v \div ByteMod) % ByteMod>>

\* binary.BigEndian.PutUint16(b, v): the two bytes written.
PutUint16(v) == <<(v \div ByteMod) % ByteMod, v % ByteMod>>

\* binary.BigEndian.Uint16(b)
Uint16(b) == b[1] * ByteMod + b[2]

(***************************************************************************)
(* Go slices.  A []byte is a window on a backing array.  A slice whose     *)
(* backing array is shared with nothing the model mutates carries its      *)
(* bytes (own = TRUE); a slice returned by r.Next is a window [lo, lo+n)   *)
(* on the backing array of the buffer r (own = FALSE).                     *)
(***************************************************************************)
Own(bs) == [own |-> TRUE, bytes |-> bs, lo |-> 0, n |-> 0]

Window(lo, n) == [own |-> FALSE, bytes |-> <<>>, lo |-> lo, n |-> n]

\* The bytes a slice shows, given the buffer's backing array.
SliceBytes(arr, d) == IF d.own THEN d.bytes ELSE SubSeq(arr, d.lo + 1, d.lo + d.n)

\* len(d)
SliceLen(d) == IF d.own THEN Len(d.bytes) ELSE d.n

(***************************************************************************)
(* bytes.Buffer: arr is the backing array (its length is the capacity),    *)
(* len the length of buf, off the read offset.                             *)
(***************************************************************************)
\* bytes.NewBuffer(bs), bs filling its array.
NewBuffer(bs) == [arr |-> bs, len |-> Len(bs), off |-> 0]

\* r.Len()
BufLen(b) == b.len - b.off

\* The unread bytes of the buffer.
Unread(b) == SubSeq(b.arr, b.off + 1, b.len)

Min(a, b) == IF a < b THEN a ELSE b

\* r.Next(n): the slice returned, a window on the buffer's own array.
NextSlice(b, n) == Window(b.off, Min(n, BufLen(b)))

\* r.Next(n): the buffer afterwards.
NextBuf(b, n) == [b EXCEPT !.off = b.off + Min(n, BufLen(b))]

(***************************************************************************)
(* TLVBody                                                                 *)
(***************************************************************************)
\* &TLVBody{Tag: k}
NewBody(k) == [Tag |-> k, Len |-> 0, data |-> Own(<<>>)]

\* tlv.Bytes()
TLVBodyBytes(arr, tlv) == SliceBytes(arr, tlv.data)

\* tlv.Set(d) for a slice d the caller owns
TLVBodySet(tlv, d) == [tlv EXCEPT !.data = Own(d), !.Len = Len(d) % Uint16Mod]

\* SerializeBytes without copy(b[4:], tlv.data).
SerializeNoPayload(arr, tlv) == PutUint16(tlv.Tag) \o PutUint16(tlv.Len)

\* The one slice tlv.SerializeTo builds and writes.
SerializeBytes(arr, tlv) ==
    PutUint16(tlv.Tag % Uint16Mod) \o PutUint16(tlv.Len) \o TLVBodyBytes(arr, tlv)

(***************************************************************************)
(* Errors: the format and the arguments handed to fmt.Errorf.              *)
(***************************************************************************)
\* A Go value: its dynamic type (shape) and what it holds, a number, bytes
\* (of a string, a []byte, the text of a codec) or the name of a codec.
Value(shape, num, bytes, codec) ==
    [shape |-> shape, num |-> num, bytes |-> bytes, codec |-> codec]

\* The nil error.
Nil == [fmt |-> "nil", args |-> <<>>]

TagArg(t) == Value("TLVTag", t, <<>>, "")
Uint16Arg(n) == Value("uint16", n, <<>>, "")
IntArg(n) == Value("int", n, <<>>, "")

\* fmt.Errorf("not enough data for tag %#x: want %d, have %d", ft, fl, r.Len())
NotEnoughData(ft, fl, have) ==
    [fmt |-> "not enough data for tag %#x: want %d, have %d",
     args |-> <<TagArg(ft), Uint16Arg(fl), IntArg(have)>>]

\* UnsupportedFieldData formatting the key in place of the value.
UnsupportedTagOnly(k, v) == [fmt |-> "unsupported field data: %#v", args |-> <<TagArg(k)>>]

\* fmt.Errorf("unsupported field data: %#v", v) in m.Set(k, v)
UnsupportedFieldData(k, v) == [fmt |-> "unsupported field data: %#v", args |-> <<v>>]

(***************************************************************************)
(* TLVMap                                                                  *)
(***************************************************************************)
EmptyMap == <<>>

\* Put that keeps an entry the map already holds.
PutFirstWins(mm, k, tlv) ==
    [t \in DOMAIN mm \cup {k} |-> IF t \in DOMAIN mm THEN mm[t] ELSE tlv]

\* t[ft] = tlv
Put(mm, k, tlv) == [t \in DOMAIN mm \cup {k} |-> IF t = k THEN tlv ELSE mm[t]]

\* The records of a map with their payload bytes resolved.
Resolve(arr, tlv) == [Tag |-> tlv.Tag, Len |-> tlv.Len, data |-> TLVBodyBytes(arr, tlv)]
Snapshot(mm, b) == [t \in DOMAIN mm |-> Resolve(b.arr, mm[t])]

\* Every window on an array nobody will write again becomes a slice of its own.
Detach(mm, b) ==
    [t \in DOMAIN mm |-> [mm[t] EXCEPT !.data = Own(TLVBodyBytes(b.arr, mm[t]))]]

(***************************************************************************)
(* pdutext.Codec: Encode of the two codecs the model uses.                 *)
(***************************************************************************)
RECURSIVE UCS2Encode(_)
UCS2Encode(text) ==
    IF text = <<>> THEN <<>> ELSE <<0, Head(text)>> \o UCS2Encode(Tail(text))

\* v.(pdutext.Codec).Encode(): UCS2 writes each character as two bytes, the
\* high byte first; Raw writes the text as it is.
CodecEncode(v) == IF v.codec = "UCS2" THEN UCS2Encode(v.bytes) ELSE v.bytes

(***************************************************************************)
(* TLVMap.Set: the type switch.                                            *)
(***************************************************************************)
Accepted(v) == v.shape \in {"nil", "uint8", "int", "string", "bytes", "codec"}

\* The slice each accepted shape hands to tlv.Set.
ShapeBytes(v) ==
    CASE v.shape = "nil" -> <<>>
      [] v.shape = "uint8" -> <<v.num>>
      [] v.shape = "int" -> <<v.num % ByteMod>>
      [] v.shape = "string" -> v.bytes
      [] v.shape = "bytes" -> v.bytes
      [] v.shape = "codec" -> CodecEncode(v)

\* SetResult storing the new, empty TLVBody before the type switch rejects v.
SetResultStoresAnyway(mm, k, v) ==
    IF Accepted(v)
    THEN [m |-> Put(mm, k, TLVBodySet(NewBody(k), ShapeBytes(v))), err |-> Nil]
    ELSE [m |-> Put(mm, k, NewBody(k)), err |-> UnsupportedFieldData(k, v)]

\* The map and the return value of m.Set(k, v).
SetResult(mm, k, v) ==
    IF Accepted(v)
    THEN [m |-> Put(mm, k, TLVBodySet(NewBody(k), ShapeBytes(v))), err |-> Nil]
    ELSE [m |-> mm, err |-> UnsupportedFieldData(k, v)]

(***************************************************************************)
(* TLVMap.Decode: the loop guard and one iteration of the loop body.       *)
(***************************************************************************)
\* LoopGuard with > in place of >=.
LoopGuardOffByOne(b) == BufLen(b) > HeaderLen

\* for r.Len() >= 4
LoopGuard(b) == BufLen(b) >= HeaderLen

\* Iteration storing the record before it compares the lengths.
IterationInsertsFirst(mm, b) ==
    LET hdr == SliceBytes(b.arr, NextSlice(b, HeaderLen))
        b1 == NextBuf(b, HeaderLen)
        ft == Uint16(SubSeq(hdr, 1, 2))
        fl == Uint16(SubSeq(hdr, 3, 4))
        b2 == NextBuf(b1, fl)
        tlv == [Tag |-> ft, Len |-> fl, data |-> NextSlice(b1, fl)]
    IN  IF BufLen(b1) < fl
        THEN [m |-> Put(mm, ft, tlv), r |-> b2, err |-> NotEnoughData(ft, fl, BufLen(b1)),
              done |-> TRUE]
        ELSE [m |-> Put(mm, ft, tlv), r |-> b2, err |-> Nil, done |-> FALSE]

\* One pass through the loop body: the map, the buffer, and whether it returned.
Iteration(mm, b) ==
    LET hdr == SliceBytes(b.arr, NextSlice(b, HeaderLen))
        b1 == NextBuf(b, HeaderLen)
        ft == Uint16(SubSeq(hdr, 1, 2))
        fl == Uint16(SubSeq(hdr, 3, 4))
        b2 == NextBuf(b1, fl)
        tlv == [Tag |-> ft, Len |-> fl, data |-> NextSlice(b1, fl)]
    IN  IF BufLen(b1) < fl
        THEN [m |-> mm, r |-> b1, err |-> NotEnoughData(ft, fl, BufLen(b1)),
              done |-> TRUE]
        ELSE [m |-> Put(mm, ft, tlv), r |-> b2, err |-> Nil, done |-> FALSE]

(***************************************************************************)
(* Inputs.                                                                 *)
(***************************************************************************)
Tags == {MsMsgWaitFacilities, SourcePort}

\* Values handed to TLVMap.Set: each accepted shape (an int above 255 and a
\* negative one among them), and one of no accepted shape, the float64 3.14.
Values ==
    { Value("nil", 0, <<>>, ""),
      Value("uint8", 1, <<>>, ""),
      Value("int", 257, <<>>, ""),
      Value("int", -255, <<>>, ""),
      Value("string", 0, <<1, 2>>, ""),
      Value("bytes", 0, <<1, 2>>, ""),
      Value("codec", 0, <<1>>, "UCS2"),
      Value("float64", 0, <<51, 46, 49, 52>>, "") }

\* Slices handed to TLVBody.Set.
BodyData == {<<>>, <<2>>}

\* Payloads of the well-formed records a peer sends.
WirePayloads == {<<1>>, <<2>>}

WireHeader(t, l) ==
    <<(t \div 256) % 256, t % 256, (l \div 256) % 256, l % 256>>

WireRecords == {WireHeader(t, Len(p)) \o p : t \in Tags, p \in WirePayloads}

RECURSIVE Concat(_)
Concat(ss) == IF ss = <<>> THEN <<>> ELSE Head(ss) \o Concat(Tail(ss))

\* What follows the well-formed records: nothing, a remainder of 1 or 3 bytes,
\* or a header that declares 10 bytes with 3 behind it.
Tails == { <<>>, <<0>>, <<0, 48, 0>>, WireHeader(MsMsgWaitFacilities, 10) \o <<1, 2, 3>> }

Buffers ==
    { Concat(ss) \o t : ss \in UNION {[1..i -> WireRecords] : i \in 0..MaxRecords},
                        t \in Tails }

\* What the caller writes into the buffer when it uses it again.
ReuseData == { <<238>>, <<2, 10, 0, 1, 238>> }

\* What the sink's Write returns.
SinkResults == {Nil, [fmt |-> "io: read/write on closed pipe", args |-> <<>>]}

(***************************************************************************)
(* The record of the most recent call: its name and, for Decode, the map   *)
(* (payloads resolved) and the unread bytes of the buffer at its entry,    *)
(* and the record whose serialization the buffer holds, if it holds one.   *)
(***************************************************************************)
NoBody == [Tag |-> -1, Len |-> 0, data |-> <<>>]

Call(op) == [op |-> op, m0 |-> EmptyMap, r0 |-> <<>>, rec |-> NoBody]

(***************************************************************************)
(* Actions.                                                                *)
(***************************************************************************)
\* A new map, and the buffer a PDU body arrived in.
Init ==
    /\ m = EmptyMap
    /\ r \in {NewBuffer(bs) : bs \in Buffers}
    /\ pc = "idle"
    /\ err = Nil
    /\ w = <<>>
    /\ h = Call("new")

\* m.Set(k, v)
TLVMapSet(k, v) ==
    /\ pc = "idle"
    /\ m' = SetResult(m, k, v).m
    /\ err' = SetResult(m, k, v).err
    /\ w' = <<>>
    /\ h' = Call("TLVMap.Set")
    /\ UNCHANGED <<r, pc>>

\* m[k].Set(d)
BodySet(k, d) ==
    /\ pc = "idle"
    /\ k \in DOMAIN m
    /\ m' = [m EXCEPT ![k] = TLVBodySet(m[k], d)]
    /\ err' = Nil
    /\ w' = <<>>
    /\ h' = Call("TLVBody.Set")
    /\ UNCHANGED <<r, pc>>

\* m[k].SerializeTo(sink), the sink's Write returning res
SerializeTo(k, res) ==
    /\ pc = "idle"
    /\ k \in DOMAIN m
    /\ w' = <<SerializeBytes(r.arr, m[k])>>
    /\ err' = res
    /\ h' = [Call("SerializeTo") EXCEPT !.rec = Resolve(r.arr, m[k])]
    /\ UNCHANGED <<m, r, pc>>

\* The bytes one record was serialized to reach a peer, which decodes them
\* into a map of its own: a new empty map and a buffer over those bytes.
Loopback ==
    /\ pc = "idle"
    /\ h.op = "SerializeTo"
    /\ err = Nil
    /\ m' = EmptyMap
    /\ r' = NewBuffer(w[1])
    /\ h' = [Call("Loopback") EXCEPT !.rec = h.rec]
    /\ UNCHANGED <<pc, err, w>>

\* m.Decode(r): entry
DecodeCall ==
    /\ pc = "idle"
    /\ pc' = "decode"
    /\ err' = Nil
    /\ w' = <<>>
    /\ h' = [Call("Decode") EXCEPT
                !.m0 = Snapshot(m, r), !.r0 = Unread(r),
                !.rec = IF h.op = "Loopback" THEN h.rec ELSE NoBody]
    /\ UNCHANGED <<m, r>>

\* One pass through the body of the loop of Decode.
DecodeIter ==
    /\ pc = "decode"
    /\ LoopGuard(r)
    /\ m' = Iteration(m, r).m
    /\ r' = Iteration(m, r).r
    /\ err' = Iteration(m, r).err
    /\ pc' = IF Iteration(m, r).done THEN "idle" ELSE "decode"
    /\ UNCHANGED <<w, h>>

\* The loop of Decode ends: return nil.
DecodeExit ==
    /\ pc = "decode"
    /\ ~LoopGuard(r)
    /\ pc' = "idle"
    /\ err' = Nil
    /\ UNCHANGED <<m, r, w, h>>

\* The caller uses the buffer again after Decode returned: r.Reset(); r.Write(p).
\* Write copies p into the backing array when it fits its capacity, and into a
\* new array otherwise (the old array then stays as it is).
ReuseBuffer(p) ==
    /\ pc = "idle"
    /\ h.op = "Decode"
    /\ IF Len(p) <= Len(r.arr)
       THEN /\ r' = [arr |-> p \o SubSeq(r.arr, Len(p) + 1, Len(r.arr)),
                     len |-> Len(p), off |-> 0]
            /\ m' = m
       ELSE /\ r' = NewBuffer(p)
            /\ m' = Detach(m, r)
    /\ h' = Call("Reuse")
    /\ UNCHANGED <<pc, err, w>>

Next ==
    \/ \E k \in Tags, v \in Values : TLVMapSet(k, v)
    \/ \E k \in Tags, d \in BodyData : BodySet(k, d)
    \/ \E k \in Tags, res \in SinkResults : SerializeTo(k, res)
    \/ Loopback
    \/ DecodeCall
    \/ DecodeIter
    \/ DecodeExit
    \/ \E p \in ReuseData : ReuseBuffer(p)

Spec == Init /\ [][Next]_vars

\* A call that has begun runs to its end: the program has one thread.
FairSpec == Spec /\ WF_vars(DecodeIter) /\ WF_vars(DecodeExit)

(***************************************************************************)
(* Payloads at and above the range of the 16-bit length: the map and its   *)
(* records with TLVMap.Set, TLVBody.Set and SerializeTo alone.             *)
(***************************************************************************)
\* n bytes, all zero.
Zeros(n) == [i \in 1..n |-> 0]

WideValues ==
    { Value("nil", 0, <<>>, ""),
      Value("uint8", 1, <<>>, ""),
      Value("bytes", 0, Zeros(Uint16Mod - 1), ""),
      Value("bytes", 0, Zeros(Uint16Mod), ""),
      Value("string", 0, Zeros(Uint16Mod + 1), ""),
      Value("float64", 0, <<51, 46, 49, 52>>, "") }

WideBodyData == {<<2>>, Zeros(Uint16Mod)}

InitWide ==
    /\ m = EmptyMap
    /\ r = NewBuffer(<<>>)
    /\ pc = "idle"
    /\ err = Nil
    /\ w = <<>>
    /\ h = Call("new")

NextWide ==
    \/ \E k \in Tags, v \in WideValues : TLVMapSet(k, v)
    \/ \E k \in Tags, d \in WideBodyData : BodySet(k, d)
    \/ \E k \in Tags, res \in SinkResults : SerializeTo(k, res)

SpecWide == InitWide /\ [][NextWide]_vars

(***************************************************************************)
(* What the claims are stated with.                                        *)
(***************************************************************************)
\* The payload bytes of every record of the map.
Payloads == Snapshot(m, r)

\* The well-formed records at the front of a byte sequence, read as the wire
\* format says: tag and length big-endian, then length bytes.
RECURSIVE WireParse(_)
WireParse(bs) ==
    IF Len(bs) < 4 THEN <<>>
    ELSE LET l == bs[3] * 256 + bs[4]
         IN  IF Len(bs) - 4 < l THEN <<>>
             ELSE <<[Tag |-> bs[1] * 256 + bs[2], Len |-> l,
                     data |-> SubSeq(bs, 5, 4 + l)]>>
                  \o WireParse(SubSeq(bs, 5 + l, Len(bs)))

\* What is left of a byte sequence behind its well-formed records.
RECURSIVE WireRest(_)
WireRest(bs) ==
    IF Len(bs) < 4 THEN bs
    ELSE LET l == bs[3] * 256 + bs[4]
         IN  IF Len(bs) - 4 < l THEN bs ELSE WireRest(SubSeq(bs, 5 + l, Len(bs)))

WireTags(recs) == {recs[i].Tag : i \in DOMAIN recs}

LastOf(recs, t) ==
    recs[CHOOSE i \in DOMAIN recs :
            /\ recs[i].Tag = t
            /\ \A j \in DOMAIN recs : recs[j].Tag = t => j <= i]

\* The shapes TLVMap.Set accepts, and the payload the claim gives each.
AcceptedShapes == {"nil", "uint8", "int", "string", "bytes", "codec"}

ClaimedPayload(v) ==
    CASE v.shape = "nil" -> <<>>
      [] v.shape = "uint8" -> <<v.num>>
      [] v.shape = "int" -> <<v.num % 256>>
      [] v.shape \in {"string", "bytes"} -> v.bytes
      [] v.shape = "codec" -> CodecEncode(v)

AllValues == Values \cup WideValues

\* The values of no accepted shape among those handed to TLVMap.Set.
UnsupportedValues == {v \in Values : v.shape \notin AcceptedShapes}

DecodeReturned == pc = "idle" /\ h.op = "Decode"

(***************************************************************************)
(* C1. Round trip: Decode on an empty map over exactly the bytes           *)
(* SerializeTo wrote for a record whose Len is its payload length returns  *)
(* nil and leaves one entry, keyed by the record's tag, with the record's  *)
(* Tag, Len and payload.                                                   *)
(***************************************************************************)
C1_RoundTrip ==
    (DecodeReturned /\ h.rec # NoBody /\ h.rec.Len = Len(h.rec.data))
        => /\ h.m0 = EmptyMap
           /\ h.r0 = WireHeader(h.rec.Tag, h.rec.Len) \o h.rec.data
           /\ err = Nil
           /\ DOMAIN m = {h.rec.Tag}
           /\ Payloads[h.rec.Tag] = h.rec

C1_Witness ==
    /\ DecodeReturned
    /\ h.rec # NoBody
    /\ h.rec.Tag = SourcePort
    /\ Len(h.rec.data) = 2
    /\ err = Nil

(***************************************************************************)
(* C2. Truncation: when the header Decode reads declares more bytes than   *)
(* remain behind it, Decode returns at once an error carrying the tag, the *)
(* declared length and the number of bytes available, and the entry at     *)
(* that tag is what it was before the header was read.                     *)
(***************************************************************************)
C2_TruncationDetected ==
    [][ (pc = "decode" /\ BufLen(r) >= 4
            /\ Unread(r)[3] * 256 + Unread(r)[4] > BufLen(r) - 4)
        => LET tag == Unread(r)[1] * 256 + Unread(r)[2]
               want == Unread(r)[3] * 256 + Unread(r)[4]
               have == BufLen(r) - 4
           IN  /\ pc' = "idle"
               /\ err' # Nil
               /\ err'.args = <<TagArg(tag), Uint16Arg(want), IntArg(have)>>
               /\ (tag \in DOMAIN m') = (tag \in DOMAIN m)
               /\ tag \in DOMAIN m => Payloads'[tag] = Payloads[tag] ]_vars

C2_Witness ==
    /\ DecodeReturned
    /\ err # Nil
    /\ err.args[1].num \in DOMAIN m
    /\ err.args[2].num = 10
    /\ err.args[3].num = 3

(***************************************************************************)
(* C3. Last wins: after Decode returned nil, every tag that occurs in the  *)
(* buffer maps to the record of its last occurrence, and every other tag   *)
(* keeps the entry it had when Decode was called.                          *)
(***************************************************************************)
C3_LastWins ==
    (DecodeReturned /\ err = Nil)
        => LET recs == WireParse(h.r0)
           IN  /\ DOMAIN m = DOMAIN h.m0 \cup WireTags(recs)
               /\ \A t \in DOMAIN m :
                     Payloads[t] = IF t \in WireTags(recs)
                                   THEN LastOf(recs, t) ELSE h.m0[t]

C3_Witness ==
    /\ DecodeReturned
    /\ err = Nil
    /\ LET recs == WireParse(h.r0)
       IN  /\ Len(recs) = 2
           /\ recs[1].Tag = recs[2].Tag
           /\ recs[1].data # recs[2].data
           /\ recs[1].Tag \in DOMAIN h.m0
           /\ \E t \in DOMAIN h.m0 : t \notin WireTags(recs)

(***************************************************************************)
(* C4. A failed TLVMap.Set changes nothing: for a value of no accepted     *)
(* shape Set returns an error and the map, and the payload of every        *)
(* record, are what they were.                                             *)
(***************************************************************************)
C4_FailedSetUnchanged ==
    [][ \A k \in Tags, v \in UnsupportedValues :
          TLVMapSet(k, v)
              => err' # Nil /\ m' = m /\ Payloads' = Payloads ]_vars

C4_Witness ==
    /\ h.op = "TLVMap.Set"
    /\ err # Nil
    /\ Cardinality(DOMAIN m) = 2

(***************************************************************************)
(* C5 as stated: the error TLVMap.Set returns for a value of no accepted   *)
(* shape names the tag k and the value v.                                  *)
(***************************************************************************)
C5_ErrorNamesTagAndValue ==
    [][ \A k \in Tags, v \in UnsupportedValues :
          TLVMapSet(k, v)
              => /\ \E i \in DOMAIN err'.args : err'.args[i] = TagArg(k)
                 /\ \E i \in DOMAIN err'.args : err'.args[i] = v ]_vars

(***************************************************************************)
(* C5 as amended: the error TLVMap.Set returns for a value of no accepted  *)
(* shape names the value v, and nothing else: the tag is not part of it.   *)
(***************************************************************************)
C5_ErrorNamesValueOnly ==
    [][ \A k \in Tags, v \in UnsupportedValues :
          TLVMapSet(k, v)
              => /\ err'.fmt = "unsupported field data: %#v"
                 /\ err'.args = <<v>> ]_vars

C5_Witness ==
    /\ h.op = "TLVMap.Set"
    /\ err.fmt = "unsupported field data: %#v"
    /\ err.args[1].shape = "float64"

(***************************************************************************)
(* C6. Setter normalization: for a value of an accepted shape Set returns  *)
(* nil and makes k map to a record with Tag k, the payload its shape       *)
(* gives, and Len the length of that payload; the other entries stay.      *)
(***************************************************************************)
C6_SetterNormalization ==
    [][ \A k \in Tags, v \in AllValues :
          (TLVMapSet(k, v) /\ v.shape \in AcceptedShapes)
              => /\ err' = Nil
                 /\ DOMAIN m' = DOMAIN m \cup {k}
                 /\ Payloads'[k].Tag = k
                 /\ Payloads'[k].data = ClaimedPayload(v)
                 /\ Payloads'[k].Len = Len(ClaimedPayload(v))
                 /\ \A t \in DOMAIN m \ {k} : Payloads'[t] = Payloads[t] ]_vars

(***************************************************************************)
(* C7. Serialization format: SerializeTo issues one Write of 4 +           *)
(* len(payload) bytes, the tag and the declared length big-endian and then *)
(* the payload, and returns what that Write returned.                      *)
(***************************************************************************)
C7_SerializationFormat ==
    [][ \A k \in Tags, res \in SinkResults :
          SerializeTo(k, res)
              => /\ Len(w') = 1
                 /\ Len(w'[1]) = 4 + Len(Payloads[k].data)
                 /\ w'[1][1] = Payloads[k].Tag \div 256
                 /\ w'[1][2] = Payloads[k].Tag % 256
                 /\ w'[1][3] = Payloads[k].Len \div 256
                 /\ w'[1][4] = Payloads[k].Len % 256
                 /\ SubSeq(w'[1], 5, Len(w'[1])) = Payloads[k].data
                 /\ err' = res ]_vars

C7_Witness ==
    /\ h.op = "SerializeTo"
    /\ err = Nil
    /\ Len(w) = 1
    /\ Len(w[1]) > Uint16Mod

(***************************************************************************)
(* C8. Record length invariant: every record of the map has Len equal to   *)
(* the number of bytes of its payload.                                     *)
(***************************************************************************)
C8_LenIsPayloadLength ==
    \A t \in DOMAIN m : m[t].Len = SliceLen(m[t].data)

(***************************************************************************)
(* C9. Decode ends: every pass of its loop takes at least 4 bytes from the *)
(* buffer; a Decode that began returns; on a buffer with no truncated      *)
(* record it returns nil with fewer than 4 bytes unread, the remainder     *)
(* left in the buffer; on an empty buffer it adds nothing to the map.      *)
(***************************************************************************)
C9_DecodeTerminates ==
    /\ [][DecodeIter => BufLen(r') <= BufLen(r) - 4]_vars
    /\ [](DecodeReturned =>
            /\ Len(WireRest(h.r0)) < 4 =>
                  err = Nil /\ BufLen(r) < 4 /\ Unread(r) = WireRest(h.r0)
            /\ h.r0 = <<>> => err = Nil /\ Payloads = h.m0)
    /\ (pc = "decode" ~> pc = "idle")

C9_Witness ==
    /\ DecodeReturned
    /\ err = Nil
    /\ BufLen(r) = 3
    /\ Len(WireParse(h.r0)) = 2

(***************************************************************************)
(* C10. Payload ownership: when the caller uses the buffer again after     *)
(* Decode returned, the bytes of every record of the map stay what they    *)
(* were.                                                                   *)
(***************************************************************************)
C10_PayloadIndependentOfBuffer ==
    [][ (\E p \in ReuseData : ReuseBuffer(p)) => Payloads' = Payloads ]_vars

====
